---- MODULE Spec2Model ----
(***************************************************************************)
(* Route53-Backup: the three Lambda handlers                               *)
(*   src/src/backup_lambda.py                           (basic backup)     *)
(*   src/src/backup-lambda-with-multiple-hostedzone-name.py (collision-    *)
(*                                                       aware backup)     *)
(*   src/src/restore_lambda.py                          (restore)          *)
(* modelled as state machines over the two external services they talk to: *)
(* the DNS provider (zone listing, paginated record listing, change        *)
(* batches) and the object store (put_object / get_object).                *)
(***************************************************************************)
EXTENDS Integers, Sequences, FiniteSets, TLC

VARIABLES
    env,            \* os.environ: the names set, "BACKUP_BUCKET" among them or not
    outcomes,       \* the answers the two services may give in this execution
    hosted_zones,   \* DNS provider: the zone listing, in listing order
    zone_pages,     \* DNS provider: zone id -> the pages of its record sets
    storage,        \* object store: key -> body (a key outside DOMAIN is absent)
    puts,           \* the put_object calls issued so far, in order
    pc,             \* backup runs: run -> position in lambda_handler
    idx,            \* backup runs: run -> index of the zone being processed
    current_date,   \* backup runs: run -> the timestamp prefix
    zone_name_count,\* backup runs: run -> the name -> count dictionary
    existing_summary,\* backup runs: run -> the summary body get_object returned
    summary_content,\* backup runs: run -> the merged summary about to be written
    result,         \* backup runs: run -> what the invocation ended with
    event,          \* restore: the event payload
    rpc,            \* restore: position in lambda_handler
    filtered_records,\* restore: the records left after the NS/SOA filter
    i,              \* restore: the loop variable of range(0, len, batch_size)
    submitted,      \* DNS provider: the change batches received, in order
    target_zone,    \* DNS provider: the records created in the target zone
    failed_chunk,   \* restore: the 1-based number of the chunk that failed, or 0
    restored,       \* restore after backup: the listing position of the zone restored
    rresult         \* restore: what the invocation ended with

vars == <<env, outcomes, restored, hosted_zones, zone_pages, storage, puts, pc, idx, current_date,
          zone_name_count, existing_summary, summary_content, result, event, rpc,
          filtered_records, i, submitted, target_zone, failed_chunk, rresult>>

backupVars == <<hosted_zones, zone_pages, puts, pc, idx, current_date,
                zone_name_count, existing_summary, summary_content, result>>

restoreVars == <<event, rpc, filtered_records, i, submitted, target_zone,
                 failed_chunk, rresult, restored>>

----------------------------------------------------------------------------
(* Bounds of the model *)

\* the longest backup document handed to restore
MaxRecords == 260
\* backup documents up to this length are enumerated with every mix of types
MaxShort == 3
\* the longest zone listing of a backup run
MaxZones == 4
\* the number of distinct clock readings a backup run may start at
MaxClock == 2
\* the record sets the provider returns per page
PageSize == 2
\* the longest zone listing two concurrent backup runs work through
MaxRaceZones == 2
\* the longest zone listing of a backup whose documents are restored
MaxRoundTripZones == 2
\* the most record sets of a zone that is backed up and then restored
MaxRoundTripRecords == 120

(* Program constants *)

\* restore_lambda.py: batch_size = 100
batch_size == 100

----------------------------------------------------------------------------
(* Sequences *)

Min(a, b) == IF a < b THEN a ELSE b

CeilDiv(n, d) == (n + d - 1) \div d

\* Python's s[a:b] on a list (0-based, b exclusive, clamped to len(s))
Slice(s, a, b) == SubSeq(s, a + 1, Min(b, Len(s)))

----------------------------------------------------------------------------
(* Exceptions and results *)

\* botocore.exceptions.ClientError, with e.response['Error']['Code'] and the
\* operation that failed
ServiceError(code, op) == [class |-> "ClientError", code |-> code, op |-> op]
\* any exception that is not a ClientError (KeyError, json.JSONDecodeError),
\* with the statement that raised it
OtherError(class, what) == [class |-> class, code |-> what, op |-> "python"]
NoException == [class |-> "none", code |-> "none", op |-> "none"]

Running == [kind |-> "running", statusCode |-> 0, message |-> "", error |-> NoException]
\* the handler returned a payload
Returned(status, message, exc) ==
    [kind |-> "returned", statusCode |-> status, message |-> message, error |-> exc]
\* the exception left lambda_handler: the invocation crashed
Raised(exc) ==
    [kind |-> "raised", statusCode |-> 0, message |-> "", error |-> exc]

----------------------------------------------------------------------------
(* Documents and their JSON text.  A text is a sequence of tokens; a loaded *)
(* value carries its Python type, which the summary merge tests.            *)

JList(items) == [type |-> "list", value |-> items]
JDict(d) == [type |-> "dict", value |-> d]
JSONDecodeError == [type |-> "error", value |-> <<>>]


\* one record set: a dict of two keys, "Name" and (from the provider) "Type"
RecordTokens(r) ==
    IF "Type" \in DOMAIN r
    THEN <<"{", "Name", r.Name, "Type", r.Type, "}">>
    ELSE <<"{", "Name", r.Name, "TTL", r.TTL, "}">>

\* one summary entry
EntryTokens(e) ==
    <<"{", "zone_name", e.zone_name, "zone_id", e.zone_id,
      "record_count", e.record_count, "backup_path", e.backup_path, "}">>

RecordWidth == Len(RecordTokens([Name |-> 0, Type |-> "A"]))
EntryWidth ==
    Len(EntryTokens([zone_name |-> <<>>, zone_id |-> "", record_count |-> 0,
                     backup_path |-> <<>>]))

\* the token sequences of the items of a list, end to end
FlatTokens(toks, width) ==
    [k \in 1..(Len(toks) * width) |-> toks[((k - 1) \div width) + 1][((k - 1) % width) + 1]]

\* json.dumps(x, indent=4) of a backup document, a summary list or one entry
json_dumps(x) ==
    IF x.type = "list"
    THEN <<"[">> \o FlatTokens([k \in DOMAIN x.value |-> EntryTokens(x.value[k])],
                               EntryWidth) \o <<"]">>
    ELSE IF "zone_name" \in DOMAIN x.value
    THEN EntryTokens(x.value)
    ELSE IF "records" \in DOMAIN x.value
    THEN <<"{", "zone", x.value.zone, "records", "[">>
         \o FlatTokens([k \in DOMAIN x.value.records |->
                           RecordTokens(x.value.records[k])], RecordWidth)
         \o <<"]", "}">>
    ELSE <<"{", "zone", x.value.zone, "}">>

DecodeRecord(t, p) ==
    [k \in {t[p + 2], t[p + 4]} |-> IF k = t[p + 2] THEN t[p + 3] ELSE t[p + 5]]

DecodeEntry(t, p) ==
    [zone_name |-> t[p + 3], zone_id |-> t[p + 5],
     record_count |-> t[p + 7], backup_path |-> t[p + 9]]

IsEntryAt(t, p) ==
    /\ t[p + 1] = "{" /\ t[p + 2] = "zone_name" /\ t[p + 4] = "zone_id"
    /\ t[p + 6] = "record_count" /\ t[p + 8] = "backup_path" /\ t[p + 10] = "}"

\* json.loads(text): the value, or JSONDecodeError for a text that is not JSON
json_loads(t) ==
    IF Len(t) < 2 THEN JSONDecodeError
    ELSE IF t[1] = "["
    THEN IF /\ (Len(t) - 2) % EntryWidth = 0
            /\ t[Len(t)] = "]"
            /\ \A j \in 1..((Len(t) - 2) \div EntryWidth) :
                   IsEntryAt(t, 1 + EntryWidth * (j - 1))
         THEN JList([j \in 1..((Len(t) - 2) \div EntryWidth) |->
                        DecodeEntry(t, 1 + EntryWidth * (j - 1))])
         ELSE JSONDecodeError
    ELSE IF t[1] # "{" THEN JSONDecodeError
    ELSE IF t[2] = "zone_name"
    THEN IF Len(t) = EntryWidth /\ IsEntryAt(t, 0)
         THEN JDict(DecodeEntry(t, 0))
         ELSE JSONDecodeError
    ELSE IF t[2] # "zone" \/ Len(t) < 4 THEN JSONDecodeError
    ELSE IF Len(t) = 4
    THEN IF t[4] = "}" THEN JDict([zone |-> t[3]]) ELSE JSONDecodeError
    ELSE IF /\ Len(t) >= 7
            /\ (Len(t) - 7) % RecordWidth = 0
            /\ t[4] = "records" /\ t[5] = "["
            /\ t[Len(t) - 1] = "]" /\ t[Len(t)] = "}"
            /\ \A j \in 1..((Len(t) - 7) \div RecordWidth) :
                   /\ t[5 + RecordWidth * (j - 1) + 1] = "{"
                   /\ t[5 + RecordWidth * j] = "}"
    THEN JDict([zone |-> t[3],
                records |-> [j \in 1..((Len(t) - 7) \div RecordWidth) |->
                                DecodeRecord(t, 5 + RecordWidth * (j - 1))]])
    ELSE JSONDecodeError

\* str.encode('utf-8') and bytes.decode('utf-8')
encode(text) == <<"utf-8", text>>
decode(body) == body[2]

----------------------------------------------------------------------------
(* Object store *)

NoBody == <<"absent">>

\* what get_object finds at a key
StoredAt(store, key) == IF key \in DOMAIN store THEN store[key] ELSE NoBody

\* put_object: unconditional overwrite
put_object(store, key, body) ==
    [k \in DOMAIN store \cup {key} |-> IF k = key THEN body ELSE store[k]]

\* the outcomes of a call to the object store or the DNS provider: it
\* succeeds, or (unless the services are healthy throughout the execution)
\* the service answers with an error, a ClientError
Healthy == {"ok"}
Faulty == {"ok", "AccessDenied"}
CallOutcomes == outcomes

----------------------------------------------------------------------------
(* Zones, names, timestamps and keys *)

\* Python's s.rstrip(ch) on a sequence of characters
RECURSIVE rstrip(_, _)
rstrip(s, ch) ==
    IF s # <<>> /\ s[Len(s)] = ch THEN rstrip(SubSeq(s, 1, Len(s) - 1), ch) ELSE s

\* Python's s.split('/')[-1]: what follows the last "/" (all of s without one)
RECURSIVE LastSegment(_)
LastSegment(s) ==
    IF s = <<>> THEN <<>>
    ELSE IF s[Len(s)] = "/" THEN <<>>
    ELSE Append(LastSegment(SubSeq(s, 1, Len(s) - 1)), s[Len(s)])

\* zone['Id'].split('/')[-1] and zone['Name'].rstrip('.')
ZoneId(zone) == LastSegment(zone.Id)
ZoneName(zone) == rstrip(zone.Name, ".")

\* the clock readings of datetime.now() in a run
Times ==
    {[Y |-> "2024", M |-> 1, D |-> 31, h |-> 23, m |-> 59, s |-> c] : c \in 0..(MaxClock - 1)}

Digits == <<"0", "1", "2", "3", "4", "5", "6", "7", "8", "9">>
Pad2(n) == <<Digits[(n \div 10) + 1], Digits[(n % 10) + 1]>>

\* datetime.now().strftime("%Y%m%d_%H%M%S")
strftime_basic(t) ==
    <<t.Y>> \o Pad2(t.M) \o Pad2(t.D) \o <<"_">> \o Pad2(t.h) \o Pad2(t.m) \o Pad2(t.s)

\* datetime.now().strftime("%Y-%m-%d_%H:%M:%S")
strftime_colons(t) ==
    <<t.Y, "-">> \o Pad2(t.M) \o <<"-">> \o Pad2(t.D) \o <<"_">>
    \o Pad2(t.h) \o <<":">> \o Pad2(t.m) \o <<":">> \o Pad2(t.s)

\* f"{current_date}/{zone_name}/route53_backup.json"
BasicBackupKey(date, zone_name) == <<date, zone_name, "route53_backup.json">>

\* f"{current_date}/{zone_name}/{zone_id}/route53_backup.json"
BackupFileKey(date, zone_name, zone_id) ==
    <<date, zone_name, zone_id, "route53_backup.json">>

\* f"{current_date}/{zone_name}/zone_summary.json"
SummaryFileKey(date, zone_name) == <<date, zone_name, "zone_summary.json">>

IsSummaryKey(key) == key[Len(key)] = "zone_summary.json"
IsBackupKey(key) == key[Len(key)] = "route53_backup.json"

\* records.extend(page['ResourceRecordSets']) over the pages, in page order
RECURSIVE ExtendAll(_)
ExtendAll(pages) ==
    IF pages = <<>> THEN <<>>
    ELSE ExtendAll(SubSeq(pages, 1, Len(pages) - 1)) \o pages[Len(pages)]

----------------------------------------------------------------------------
(* The backup handlers.  A run r is one invocation of lambda_handler. *)

\* except Exception as e: return 500 (both backup handlers)
BackupExcept(exc) == Returned(500, "Backup operation failed", exc)

Fail(r, exc) ==
    /\ result' = [result EXCEPT ![r] = BackupExcept(exc)]
    /\ pc' = [pc EXCEPT ![r] = "done"]

\* mutant: the count is set, never incremented
CountZone_NeverIncrements(count, zone_name) ==
    [n \in DOMAIN count \cup {zone_name} |-> IF n = zone_name THEN 1 ELSE count[n]]

\* lines 37-40: zone_name_count[zone_name] += 1, or = 1 for a new name
CountZone(count, zone_name) ==
    [n \in DOMAIN count \cup {zone_name} |->
        IF n # zone_name THEN count[n]
        ELSE IF zone_name \in DOMAIN count THEN count[zone_name] + 1 ELSE 1]

\* mutant: every zone gets a summary entry
NeedsSummary_Always(count, zone_name) == count[zone_name] >= 1

\* line 70: if zone_name_count[zone_name] > 1
NeedsSummary(count, zone_name) == count[zone_name] > 1

\* lines 71-76
SummaryData(zone_name, zone_id, records, backup_file_key) ==
    [zone_name |-> zone_name, zone_id |-> zone_id,
     record_count |-> Len(records), backup_path |-> backup_file_key]

\* mutant: the new entry goes first
MergeSummary_Prepend(loaded, summary_data) ==
    IF loaded.type = "list"
    THEN JList(<<summary_data>> \o loaded.value)
    ELSE JList(<<summary_data, loaded.value>>)

\* mutant: the summary is started afresh
MergeSummary_Overwrite(loaded, summary_data) == JList(<<summary_data>>)

\* lines 88-91: append to a list, or pair a single object with the entry
MergeSummary(loaded, summary_data) ==
    IF loaded.type = "list"
    THEN JList(Append(loaded.value, summary_data))
    ELSE JList(<<loaded.value, summary_data>>)

\* lines 16-30 (lines 16-26 of the basic handler): environment, zone listing,
\* timestamp
StartRun(r, next, stamps) ==
    /\ \E route53 \in CallOutcomes, stamp \in stamps :
        IF "BACKUP_BUCKET" \notin env.keys
        THEN /\ Fail(r, OtherError("KeyError", "BACKUP_BUCKET"))
             /\ UNCHANGED <<current_date, idx, zone_name_count>>
        ELSE IF route53 # "ok"
        THEN /\ Fail(r, ServiceError(route53, "ListHostedZones"))
             /\ UNCHANGED <<current_date, idx, zone_name_count>>
        ELSE /\ current_date' = [current_date EXCEPT ![r] = stamp]
             /\ idx' = [idx EXCEPT ![r] = 1]
             /\ zone_name_count' = [zone_name_count EXCEPT ![r] = <<>>]
             /\ pc' = [pc EXCEPT ![r] = next]
             /\ UNCHANGED result
    /\ UNCHANGED <<env, outcomes, hosted_zones, zone_pages, storage, puts,
                   existing_summary, summary_content>>
    /\ UNCHANGED restoreVars

\* lines 107-118 (lines 59-66 of the basic handler): every zone is done
FinishRun(r) ==
    /\ idx[r] > Len(hosted_zones)
    /\ result' = [result EXCEPT ![r] =
                     Returned(200, "Backup operation completed", NoException)]
    /\ pc' = [pc EXCEPT ![r] = "done"]
    /\ UNCHANGED <<env, outcomes, hosted_zones, zone_pages, storage, puts, idx, current_date,
                   zone_name_count, existing_summary, summary_content>>
    /\ UNCHANGED restoreVars

\* a put_object issued by run r while it processes zone number idx[r]: what
\* it wrote, what lay at the key before, and what the run had read there
LogPut(r, key, body) ==
    Append(puts, [run |-> r, idx |-> idx[r], key |-> key, body |-> body,
                  prev |-> StoredAt(storage, key), read |-> existing_summary[r]])

(* backup-lambda-with-multiple-hostedzone-name.py *)

BackupStart(r) ==
    /\ pc[r] = "start"
    /\ StartRun(r, "zone", {strftime_colons(now) : now \in Times})

\* lines 42-46: the paginator's pages, flattened
Records(zone_id) == ExtendAll(zone_pages[zone_id])

\* lines 49-56
BackupDocument(zone_id, zone_name, records) ==
    JDict([zone |-> [Id |-> zone_id, Name |-> zone_name, RecordCount |-> Len(records)],
           records |-> records])

\* lines 32-70, one iteration up to the summary decision: count the name,
\* fetch the records, write the backup document
BackupZone(r) ==
    /\ pc[r] = "zone"
    /\ idx[r] <= Len(hosted_zones)
    /\ LET zone_id == ZoneId(hosted_zones[idx[r]])
           zone_name == ZoneName(hosted_zones[idx[r]])
           count == CountZone(zone_name_count[r], zone_name)
           backup_file_key == BackupFileKey(current_date[r], zone_name, zone_id)
       IN  /\ zone_name_count' = [zone_name_count EXCEPT ![r] = count]
           /\ \E route53 \in CallOutcomes, s3 \in CallOutcomes :
               IF route53 # "ok"
               THEN /\ Fail(r, ServiceError(route53, "ListResourceRecordSets"))
                    /\ UNCHANGED <<storage, puts, idx>>
               ELSE IF s3 # "ok"
               THEN /\ Fail(r, ServiceError(s3, "PutObject"))
                    /\ UNCHANGED <<storage, puts, idx>>
               ELSE LET body == encode(json_dumps(
                                    BackupDocument(zone_id, zone_name, Records(zone_id))))
                    IN  /\ storage' = put_object(storage, backup_file_key, body)
                        /\ puts' = LogPut(r, backup_file_key, body)
                        /\ IF NeedsSummary(count, zone_name)
                           THEN /\ pc' = [pc EXCEPT ![r] = "get_summary"]
                                /\ UNCHANGED idx
                           ELSE /\ idx' = [idx EXCEPT ![r] = idx[r] + 1]
                                /\ UNCHANGED pc
                        /\ UNCHANGED result
    /\ UNCHANGED <<env, outcomes, hosted_zones, zone_pages, current_date,
                   existing_summary, summary_content>>
    /\ UNCHANGED restoreVars

\* the summary entry of the zone run r is processing (lines 71-78)
CurrentEntry(r) ==
    LET zone_id == ZoneId(hosted_zones[idx[r]])
        zone_name == ZoneName(hosted_zones[idx[r]])
    IN  SummaryData(zone_name, zone_id, Records(zone_id),
                    BackupFileKey(current_date[r], zone_name, zone_id))

CurrentSummaryKey(r) ==
    SummaryFileKey(current_date[r], ZoneName(hosted_zones[idx[r]]))

\* lines 81-96: read the existing summary and merge the entry into it
GetSummary(r) ==
    /\ pc[r] = "get_summary"
    /\ \E s3 \in CallOutcomes :
        IF s3 # "ok"
        THEN /\ Fail(r, ServiceError(s3, "GetObject"))
             /\ UNCHANGED <<existing_summary, summary_content>>
        ELSE IF CurrentSummaryKey(r) \notin DOMAIN storage
        THEN \* ClientError NoSuchKey, caught at line 92
             /\ existing_summary' = [existing_summary EXCEPT ![r] = NoBody]
             /\ summary_content' =
                    [summary_content EXCEPT ![r] = JList(<<CurrentEntry(r)>>)]
             /\ pc' = [pc EXCEPT ![r] = "put_summary"]
             /\ UNCHANGED result
        ELSE LET loaded == json_loads(decode(storage[CurrentSummaryKey(r)])) IN
             IF loaded.type = "error"
             THEN /\ Fail(r, OtherError("JSONDecodeError", "summary"))
                  /\ UNCHANGED <<existing_summary, summary_content>>
             ELSE /\ existing_summary' =
                         [existing_summary EXCEPT ![r] = storage[CurrentSummaryKey(r)]]
                  /\ summary_content' =
                         [summary_content EXCEPT ![r] = MergeSummary(loaded, CurrentEntry(r))]
                  /\ pc' = [pc EXCEPT ![r] = "put_summary"]
                  /\ UNCHANGED result
    /\ UNCHANGED <<env, outcomes, hosted_zones, zone_pages, storage, puts, idx, current_date,
                   zone_name_count>>
    /\ UNCHANGED restoreVars

\* lines 98-105: write the merged summary and go on to the next zone
PutSummary(r) ==
    /\ pc[r] = "put_summary"
    /\ \E s3 \in CallOutcomes :
        IF s3 # "ok"
        THEN /\ Fail(r, ServiceError(s3, "PutObject"))
             /\ UNCHANGED <<storage, puts, idx>>
        ELSE LET body == encode(json_dumps(summary_content[r])) IN
             /\ storage' = put_object(storage, CurrentSummaryKey(r), body)
             /\ puts' = LogPut(r, CurrentSummaryKey(r), body)
             /\ idx' = [idx EXCEPT ![r] = idx[r] + 1]
             /\ pc' = [pc EXCEPT ![r] = "zone"]
             /\ UNCHANGED result
    /\ UNCHANGED <<env, outcomes, hosted_zones, zone_pages, current_date, zone_name_count,
                   existing_summary, summary_content>>
    /\ UNCHANGED restoreVars

BackupReturn(r) ==
    /\ pc[r] = "zone"
    /\ FinishRun(r)

(* backup_lambda.py *)

BasicStart(r) ==
    /\ pc[r] = "basic_start"
    /\ StartRun(r, "basic_zone", {strftime_basic(now) : now \in Times})

\* lines 39-45
BasicDocument(zone_id, zone_name, records) ==
    JDict([zone |-> [Id |-> zone_id, Name |-> zone_name], records |-> records])

\* lines 28-57, one iteration
BasicZone(r) ==
    /\ pc[r] = "basic_zone"
    /\ idx[r] <= Len(hosted_zones)
    /\ LET zone_id == ZoneId(hosted_zones[idx[r]])
           zone_name == ZoneName(hosted_zones[idx[r]])
           backup_file_key == BasicBackupKey(current_date[r], zone_name)
       IN  \E route53 \in CallOutcomes, s3 \in CallOutcomes :
               IF route53 # "ok"
               THEN /\ Fail(r, ServiceError(route53, "ListResourceRecordSets"))
                    /\ UNCHANGED <<storage, puts, idx>>
               ELSE IF s3 # "ok"
               THEN /\ Fail(r, ServiceError(s3, "PutObject"))
                    /\ UNCHANGED <<storage, puts, idx>>
               ELSE LET body == encode(json_dumps(
                                    BasicDocument(zone_id, zone_name, Records(zone_id))))
                    IN  /\ storage' = put_object(storage, backup_file_key, body)
                        /\ puts' = LogPut(r, backup_file_key, body)
                        /\ idx' = [idx EXCEPT ![r] = idx[r] + 1]
                        /\ UNCHANGED <<pc, result>>
    /\ UNCHANGED <<env, outcomes, hosted_zones, zone_pages, current_date, zone_name_count,
                   existing_summary, summary_content>>
    /\ UNCHANGED restoreVars

BasicReturn(r) ==
    /\ pc[r] = "basic_zone"
    /\ FinishRun(r)

----------------------------------------------------------------------------
(* restore_lambda.py *)

\* except ClientError as e: return 500; anything else leaves the handler
RestoreExcept(exc) ==
    IF exc.class = "ClientError"
    THEN Returned(500, "Restore operation failed", exc)
    ELSE Raised(exc)

\* mutant: the filter forgets SOA
NotInfrastructure_OnlyNS(r) == r.Type # "NS"

\* r['Type'] not in ['NS', 'SOA']
NotInfrastructure(r) == r.Type \notin {"NS", "SOA"}

\* [r for r in records if r['Type'] not in ['NS', 'SOA']]
FilterRecords(records) == SelectSeq(records, NotInfrastructure)

\* lines 17-31: the first exception the statements raise, in statement order
RestoreSetupException(s3) ==
    IF "BACKUP_BUCKET" \notin env.keys THEN OtherError("KeyError", "BACKUP_BUCKET")
    ELSE IF "backup_key" \notin event.keys THEN OtherError("KeyError", "backup_key")
    ELSE IF "hosted_zone_id" \notin event.keys
    THEN OtherError("KeyError", "hosted_zone_id")
    ELSE IF s3 # "ok" THEN ServiceError(s3, "GetObject")
    ELSE IF event.backup_key \notin DOMAIN storage THEN ServiceError("NoSuchKey", "GetObject")
    ELSE LET backup_data == json_loads(decode(storage[event.backup_key]))
         IN  IF backup_data.type = "error" THEN OtherError("JSONDecodeError", "")
             ELSE IF backup_data.type = "list"
             THEN OtherError("TypeError", "records")
             ELSE IF "records" \notin DOMAIN backup_data.value
             THEN OtherError("KeyError", "records")
             ELSE IF \E k \in DOMAIN backup_data.value.records :
                        "Type" \notin DOMAIN backup_data.value.records[k]
             THEN OtherError("KeyError", "Type")
             ELSE NoException

\* lines 15-34: environment, event, get_object, json.loads, the NS/SOA filter
RestoreStart ==
    /\ rpc = "start"
    /\ \E s3 \in CallOutcomes :
        LET exc == RestoreSetupException(s3) IN
        IF exc = NoException
        THEN /\ filtered_records' =
                    FilterRecords(json_loads(decode(storage[event.backup_key])).value.records)
             /\ i' = 0
             /\ rpc' = "batch"
             /\ rresult' = rresult
        ELSE /\ rresult' = RestoreExcept(exc)
             /\ rpc' = "done"
             /\ UNCHANGED <<filtered_records, i>>
    /\ UNCHANGED <<env, outcomes, storage, event, submitted, target_zone, failed_chunk>>
    /\ UNCHANGED <<backupVars, restored>>

\* mutant: the slice stops one short of the next batch's first record
Batch_OneShort(records, at) == Slice(records, at, at + batch_size - 1)

\* lines 36-37: the batch at offset i and its change list
Batch(records, at) == Slice(records, at, at + batch_size)
Changes(batch) ==
    [k \in DOMAIN batch |-> [Action |-> "CREATE", ResourceRecordSet |-> batch[k]]]

\* mutant: a rejected batch is noted and the loop goes on to the next one
SubmitBatch_KeepGoing ==
    /\ rpc = "batch"
    /\ i < Len(filtered_records)
    /\ submitted' = Append(submitted, Changes(Batch(filtered_records, i)))
    /\ i' = i + batch_size
    /\ \E route53 \in CallOutcomes :
        IF route53 = "ok"
        THEN /\ target_zone' = target_zone \o Batch(filtered_records, i)
             /\ UNCHANGED failed_chunk
        ELSE /\ failed_chunk' = Len(submitted) + 1
             /\ UNCHANGED target_zone
    /\ UNCHANGED <<env, outcomes, storage, event, filtered_records, rpc, rresult>>
    /\ UNCHANGED <<backupVars, restored>>

\* lines 35-42, one iteration: change_resource_record_sets applies the whole
\* batch, or rejects it and raises a ClientError (lines 52-60)
SubmitBatch ==
    /\ rpc = "batch"
    /\ i < Len(filtered_records)
    /\ submitted' = Append(submitted, Changes(Batch(filtered_records, i)))
    /\ \E route53 \in CallOutcomes :
        IF route53 = "ok"
        THEN /\ target_zone' = target_zone \o Batch(filtered_records, i)
             /\ i' = i + batch_size
             /\ UNCHANGED <<rpc, rresult, failed_chunk>>
        ELSE /\ failed_chunk' = Len(submitted) + 1
             /\ rresult' = RestoreExcept(ServiceError(route53, "ChangeResourceRecordSets"))
             /\ rpc' = "done"
             /\ UNCHANGED <<target_zone, i>>
    /\ UNCHANGED <<env, outcomes, storage, event, filtered_records>>
    /\ UNCHANGED <<backupVars, restored>>

\* lines 44-50: the loop is exhausted
RestoreReturn ==
    /\ rpc = "batch"
    /\ i >= Len(filtered_records)
    /\ rresult' = Returned(200, "Restore operation completed", NoException)
    /\ rpc' = "done"
    /\ UNCHANGED <<env, outcomes, storage, event, filtered_records, i, submitted,
                   target_zone, failed_chunk>>
    /\ UNCHANGED <<backupVars, restored>>

----------------------------------------------------------------------------
(* The backup documents handed to restore *)

RecordTypes == {"A", "CNAME", "NS", "SOA"}

\* the record types of a long document: a prefix, then a cycle repeated.
\* The second is a zone as the provider lists it (its apex NS and SOA first),
\* the third has delegations (NS) and SOA records among the others.
TypePatterns ==
    << [prefix |-> <<>>, cycle |-> <<"A">>],
       [prefix |-> <<"NS", "SOA">>, cycle |-> <<"A", "CNAME">>],
       [prefix |-> <<>>, cycle |-> <<"A", "NS", "CNAME", "SOA", "SOA", "A">>] >>

TypeAt(c, k) ==
    LET p == TypePatterns[c] IN
    IF k <= Len(p.prefix) THEN p.prefix[k]
    ELSE p.cycle[((k - Len(p.prefix) - 1) % Len(p.cycle)) + 1]

CycleRecords(n, c) == [k \in 1..n |-> [Name |-> k, Type |-> TypeAt(c, k)]]

\* every mix and order of record types up to MaxShort records
ShortRecords ==
    UNION {{[k \in 1..n |-> [Name |-> k, Type |-> ty[k]]] : ty \in [1..n -> RecordTypes]}
           : n \in 0..MaxShort}

\* a record set without a "Type" key
Untyped(k) == [Name |-> k, TTL |-> 300]

BackupData(zone, records) == JDict([zone |-> zone, records |-> records])

SampleZone == [Id |-> "Z1", Name |-> <<"a">>]
SampleKey == <<"20240101_000000", <<"a">>, "route53_backup.json">>

\* what may lie at the key restore is pointed to
RestoreBodies ==
    {encode(json_dumps(BackupData(SampleZone, recs))) : recs \in ShortRecords}
    \cup {encode(json_dumps(BackupData(SampleZone, CycleRecords(n, c)))) :
             n \in 0..MaxRecords, c \in DOMAIN TypePatterns}
    \cup {encode(json_dumps(BackupData(SampleZone, <<Untyped(1)>>))),
          encode(json_dumps(BackupData(SampleZone,
                    <<[Name |-> 1, Type |-> "A"], Untyped(2)>>))),
          encode(json_dumps(JDict([zone |-> SampleZone]))),
          encode(<<"{", "zone">>),
          encode(<<>>)}

Dict(keys) == [keys |-> keys, backup_key |-> SampleKey, hosted_zone_id |-> "ZT"]

IdleBackup ==
    /\ hosted_zones = <<>>
    /\ zone_pages = <<>>
    /\ puts = <<>>
    /\ pc = <<>>
    /\ idx = <<>>
    /\ current_date = <<>>
    /\ zone_name_count = <<>>
    /\ existing_summary = <<>>
    /\ summary_content = <<>>
    /\ result = <<>>

InitRestore ==
    /\ outcomes = Faulty
    /\ restored = 0
    /\ env \in {[keys |-> {}], [keys |-> {"BACKUP_BUCKET"}]}
    /\ event \in {Dict(ks) : ks \in SUBSET {"backup_key", "hosted_zone_id"}}
    /\ storage \in {<<>>} \cup {[k \in {SampleKey} |-> b] : b \in RestoreBodies}
    /\ rpc = "start"
    /\ filtered_records = <<>>
    /\ i = 0
    /\ submitted = <<>>
    /\ target_zone = <<>>
    /\ failed_chunk = 0
    /\ rresult = Running
    /\ IdleBackup

NextRestore == RestoreStart \/ SubmitBatch \/ RestoreReturn

SpecRestore == InitRestore /\ [][NextRestore]_vars

----------------------------------------------------------------------------
(* The accounts a backup run may face *)

\* the provider's zone number k: its Id carries the path prefix
ProviderZone(k, name) ==
    [Id |-> <<"/", "hostedzone", "/", "Z", Digits[k + 1]>>, Name |-> name]

\* display names as listed: with the trailing root dot, and one without
RawNames == {<<"a", ".">>, <<"a">>, <<"b", ".">>}

\* display names as the provider lists them
DottedNames == {<<"a", ".">>, <<"b", ".">>}

Listings(max, names) ==
    UNION {{[k \in 1..n |-> ProviderZone(k, nm[k])] : nm \in [1..n -> names]}
           : n \in 0..max}

\* the paginator: pages of at most size records, at least one page
Paginate(records, size) ==
    IF records = <<>> THEN << <<>> >>
    ELSE [p \in 1..CeilDiv(Len(records), size) |->
             SubSeq(records, (p - 1) * size + 1, Min(p * size, Len(records)))]

\* zone number k holds k + 1 record sets, its apex NS and SOA first
ZoneRecordSets(k) == CycleRecords(k + 1, 2)

\* the provider's pages per zone id, for the record sets of each listed zone
ProviderPages(listing, recordsOf, size) ==
    [id \in {ZoneId(listing[k]) : k \in DOMAIN listing} |->
        Paginate(recordsOf[CHOOSE k \in DOMAIN listing : ZoneId(listing[k]) = id], size)]

\* a summary entry left by an earlier run
OldEntry ==
    [zone_name |-> <<"a">>, zone_id |-> <<"Z", "0">>, record_count |-> 1,
     backup_path |-> BackupFileKey(strftime_colons(CHOOSE t \in Times : t.s = 0),
                                   <<"a">>, <<"Z", "0">>)]

\* what may lie at a summary key before the run: a list, a single object, or
\* a body that is not JSON
OldSummaries ==
    {encode(json_dumps(JList(<<OldEntry>>))),
     encode(json_dumps(JList(<<>>))),
     encode(json_dumps(JDict(OldEntry))),
     encode(<<"[", "{">>)}

InitialStores ==
    {<<>>} \cup
    {[k \in {SummaryFileKey(strftime_colons(CHOOSE t \in Times : t.s = 0), <<"a">>)}
         |-> b] : b \in OldSummaries}

IdleRestore ==
    /\ restored = 0
    /\ event = Dict({})
    /\ rpc = "idle"
    /\ filtered_records = <<>>
    /\ i = 0
    /\ submitted = <<>>
    /\ target_zone = <<>>
    /\ failed_chunk = 0
    /\ rresult = Running

InitRuns(n, start) ==
    /\ puts = <<>>
    /\ pc = [r \in 1..n |-> start]
    /\ idx = [r \in 1..n |-> 0]
    /\ current_date = [r \in 1..n |-> <<>>]
    /\ zone_name_count = [r \in 1..n |-> <<>>]
    /\ existing_summary = [r \in 1..n |-> NoBody]
    /\ summary_content = [r \in 1..n |-> JList(<<>>)]
    /\ result = [r \in 1..n |-> Running]

\* one run of the collision-aware handler
InitBackup ==
    /\ outcomes = Faulty
    /\ env \in {[keys |-> {}], [keys |-> {"BACKUP_BUCKET"}]}
    /\ hosted_zones \in Listings(MaxZones, RawNames)
    /\ zone_pages = ProviderPages(hosted_zones,
                                [k \in DOMAIN hosted_zones |-> ZoneRecordSets(k)], PageSize)
    /\ storage \in InitialStores
    /\ InitRuns(1, "start")
    /\ IdleRestore

NextBackup ==
    \/ \E r \in DOMAIN pc : BackupStart(r)
    \/ \E r \in DOMAIN pc : BackupZone(r)
    \/ \E r \in DOMAIN pc : GetSummary(r)
    \/ \E r \in DOMAIN pc : PutSummary(r)
    \/ \E r \in DOMAIN pc : BackupReturn(r)

SpecBackup == InitBackup /\ [][NextBackup]_vars

\* one run of the basic handler
InitBasic ==
    /\ outcomes = Faulty
    /\ env \in {[keys |-> {}], [keys |-> {"BACKUP_BUCKET"}]}
    /\ hosted_zones \in Listings(MaxZones, RawNames)
    /\ zone_pages = ProviderPages(hosted_zones,
                                [k \in DOMAIN hosted_zones |-> ZoneRecordSets(k)], PageSize)
    /\ storage = <<>>
    /\ InitRuns(1, "basic_start")
    /\ IdleRestore

NextBasic ==
    \/ \E r \in DOMAIN pc : BasicStart(r)
    \/ \E r \in DOMAIN pc : BasicZone(r)
    \/ \E r \in DOMAIN pc : BasicReturn(r)

SpecBasic == InitBasic /\ [][NextBasic]_vars

\* one run, or two concurrent runs, of the collision-aware handler over the
\* same account and bucket
InitRace ==
    /\ outcomes = Healthy
    /\ env = [keys |-> {"BACKUP_BUCKET"}]
    /\ hosted_zones \in Listings(MaxRaceZones, DottedNames)
    /\ zone_pages = ProviderPages(hosted_zones,
                                [k \in DOMAIN hosted_zones |-> ZoneRecordSets(k)], PageSize)
    /\ storage = <<>>
    /\ \E n \in {1, 2} : InitRuns(n, "start")
    /\ IdleRestore

SpecRace == InitRace /\ [][NextBackup]_vars

----------------------------------------------------------------------------
(* Backup, then restore of one of the documents the backup wrote *)

\* the key under which the run wrote the backup document of zone number k
WrittenKey(k) ==
    puts[CHOOSE j \in DOMAIN puts : puts[j].idx = k /\ IsBackupKey(puts[j].key)].key

\* restore is invoked for zone number k of a completed backup, with the key
\* of that zone's backup document and an empty target zone
InvokeRestore ==
    /\ rpc = "idle"
    /\ \A r \in DOMAIN pc :
           pc[r] = "done" /\ result[r].kind = "returned" /\ result[r].statusCode = 200
    /\ \E k \in DOMAIN hosted_zones :
        /\ restored' = k
        /\ event' = [keys |-> {"backup_key", "hosted_zone_id"},
                     backup_key |-> WrittenKey(k), hosted_zone_id |-> "ZT"]
    /\ rpc' = "start"
    /\ UNCHANGED <<env, outcomes, storage, filtered_records, i, submitted,
                   target_zone, failed_chunk, rresult>>
    /\ UNCHANGED backupVars

\* the first zone holds up to MaxRoundTripRecords record sets, the others a few
LongRecordSets(listing, n, c) ==
    [k \in DOMAIN listing |-> IF k = 1 THEN CycleRecords(n, c) ELSE ZoneRecordSets(k)]

InitRoundTrip ==
    /\ outcomes = Healthy
    /\ env = [keys |-> {"BACKUP_BUCKET"}]
    /\ hosted_zones \in Listings(MaxRoundTripZones, DottedNames)
    /\ \E n \in 0..MaxRoundTripRecords, c \in DOMAIN TypePatterns :
           zone_pages = ProviderPages(hosted_zones,
                                      LongRecordSets(hosted_zones, n, c), PageSize)
    /\ storage = <<>>
    /\ \E start \in {"start", "basic_start"} : InitRuns(1, start)
    /\ IdleRestore

NextRoundTrip ==
    \/ NextBackup
    \/ NextBasic
    \/ InvokeRestore
    \/ NextRestore

SpecRoundTrip == InitRoundTrip /\ [][NextRoundTrip]_vars

----------------------------------------------------------------------------
(* Properties of the backup handlers *)

\* the put_object calls on a key, as positions in the log
PutsOn(key) == {j \in DOMAIN puts : puts[j].key = key}

Least(S) == CHOOSE k \in S : \A m \in S : k <= m

\* what lay at a key before the first put of the log
InitialAt(key) ==
    IF PutsOn(key) = {} THEN StoredAt(storage, key) ELSE puts[Least(PutsOn(key))].prev

\* the listing positions of the zones displayed under a name
Occurrences(name) == {k \in DOMAIN hosted_zones : ZoneName(hosted_zones[k]) = name}

ListedNames == {ZoneName(hosted_zones[k]) : k \in DOMAIN hosted_zones}

\* the j-th smallest element of a set of numbers
Nth(S, j) == CHOOSE k \in S : Cardinality({m \in S : m <= k}) = j

\* the summary entry that describes zone number k in a run stamped date
EntryFor(date, k) ==
    [zone_name |-> ZoneName(hosted_zones[k]),
     zone_id |-> ZoneId(hosted_zones[k]),
     record_count |-> Len(ExtendAll(zone_pages[ZoneId(hosted_zones[k])])),
     backup_path |-> <<date, ZoneName(hosted_zones[k]), ZoneId(hosted_zones[k]),
                       "route53_backup.json">>]

Succeeded(r) ==
    pc[r] = "done" /\ result[r].kind = "returned" /\ result[r].statusCode = 200

\* the summary of a name holds one entry per zone in later, in listing order
SummaryHolds(date, name, later) ==
    LET key == <<date, name, "zone_summary.json">> IN
    IF later = {} THEN key \notin DOMAIN storage
    ELSE /\ key \in DOMAIN storage
         /\ LET v == json_loads(decode(storage[key])) IN
            /\ v.type = "list"
            /\ Len(v.value) = Cardinality(later)
            /\ \A j \in 1..Cardinality(later) : v.value[j] = EntryFor(date, Nth(later, j))

\* C1: in a run that starts with no summary document for a name under its
\* timestamp prefix, the summary of that name holds, at every moment, one
\* entry for each zone of the name the run has finished with except the first,
\* in processing order; at the end of a run that processed the whole listing a
\* name occurring k >= 2 times has exactly k-1 entries, for its 2nd..k-th zones.
C1_SummaryHoldsAllButFirst ==
    \A r \in DOMAIN pc : \A name \in ListedNames :
        (idx[r] > 0 /\ InitialAt(<<current_date[r], name, "zone_summary.json">>) = NoBody)
        =>
        LET finished == {k \in Occurrences(name) : k < idx[r]}
            occ == Occurrences(name)
        IN  /\ SummaryHolds(current_date[r], name, finished \ {Least(occ)})
            /\ (Succeeded(r) /\ Cardinality(occ) >= 2) =>
                   LET v == json_loads(decode(
                                storage[<<current_date[r], name, "zone_summary.json">>]))
                   IN  /\ Len(v.value) = Cardinality(occ) - 1
                       /\ \A j \in 1..(Cardinality(occ) - 1) :
                              v.value[j].zone_id = ZoneId(hosted_zones[Nth(occ, j + 1)])
                       /\ \A j \in 1..(Cardinality(occ) - 1) :
                              v.value[j].zone_id # ZoneId(hosted_zones[Least(occ)])

\* a completed run over a listing where one name occurs three times, with a
\* zone of another name among them
C1_Witness ==
    /\ Succeeded(1)
    /\ storage # <<>>
    /\ \E name \in ListedNames :
        /\ Cardinality(Occurrences(name)) = 3
        /\ \E k \in DOMAIN hosted_zones :
               /\ k \notin Occurrences(name)
               /\ Least(Occurrences(name)) < k
               /\ k < Nth(Occurrences(name), 3)
        /\ InitialAt(<<current_date[1], name, "zone_summary.json">>) = NoBody
        /\ Len(json_loads(decode(
               storage[<<current_date[1], name, "zone_summary.json">>])).value) = 2

\* C2: for a zone name that occurs exactly once in the listing, no put is
\* ever issued at that name's zone_summary.json key.
C2_NoSummaryForUniqueName ==
    \A name \in ListedNames :
        Cardinality(Occurrences(name)) = 1 =>
            \A j \in DOMAIN puts :
                puts[j].key # <<current_date[puts[j].run], name, "zone_summary.json">>

\* a completed run over a listing with a unique name between two zones of a
\* duplicated name, whose summary was written
C2_Witness ==
    /\ Succeeded(1)
    /\ \E name \in ListedNames :
        /\ Cardinality(Occurrences(name)) = 1
        /\ \E k \in DOMAIN hosted_zones : k < Least(Occurrences(name))
        /\ \E k \in DOMAIN hosted_zones : k > Least(Occurrences(name))
    /\ \E j \in DOMAIN puts : IsSummaryKey(puts[j].key)

\* C7: within a run no backup-document key is written more than once, the
\* only key a put finds occupied is a summary key, and when the run has
\* processed the whole listing every zone's backup document lies in storage
\* as it was written for that zone.
C7_BackupDocumentsWrittenOnce ==
    /\ \A j \in DOMAIN puts :
           IsBackupKey(puts[j].key) =>
               /\ puts[j].prev = NoBody
               /\ \A m \in DOMAIN puts : puts[m].key = puts[j].key => m = j
    /\ \A r \in DOMAIN pc :
           Succeeded(r) =>
               \A k \in DOMAIN hosted_zones :
                   \E j \in DOMAIN puts :
                       /\ puts[j].run = r
                       /\ puts[j].idx = k
                       /\ IsBackupKey(puts[j].key)
                       /\ storage[puts[j].key] = puts[j].body

\* C9: every summary put writes the merge of what lay at the key: nothing
\* there -> [current]; a list S -> S with current appended; a single object
\* X -> [X, current].  A run whose summary read failed otherwise has ended
\* with a failure result and has written nothing to the summary key for the
\* zone it was processing.
C9_SummaryMerge ==
    /\ \A j \in DOMAIN puts :
           IsSummaryKey(puts[j].key) =>
               LET current == EntryFor(current_date[puts[j].run], puts[j].idx)
                   written == json_loads(decode(puts[j].body))
               IN  IF puts[j].prev = NoBody
                   THEN written = JList(<<current>>)
                   ELSE LET before == json_loads(decode(puts[j].prev)) IN
                        /\ before.type = "list" =>
                               /\ written.type = "list"
                               /\ written.value = before.value \o <<current>>
                        /\ before.type = "dict" =>
                               written = JList(<<before.value, current>>)
    /\ \A r \in DOMAIN pc :
           (\/ result[r].error.op = "GetObject"
            \/ result[r].error.class = "JSONDecodeError")
           =>
               /\ pc[r] = "done"
               /\ result[r].kind = "returned"
               /\ result[r].statusCode = 500
               /\ \A j \in DOMAIN puts :
                      ~(puts[j].run = r /\ puts[j].idx = idx[r] /\ IsSummaryKey(puts[j].key))
               /\ StoredAt(storage, CurrentSummaryKey(r))
                      = InitialAt(CurrentSummaryKey(r))
                  \/ \E j \in PutsOn(CurrentSummaryKey(r)) :
                         /\ puts[j].idx < idx[r]
                         /\ storage[CurrentSummaryKey(r)] = puts[j].body

\* a run that found a single object at the summary key, wrote the pair, and
\* then appended a third entry to that list
C9_Witness ==
    /\ \E j \in DOMAIN puts :
           /\ IsSummaryKey(puts[j].key)
           /\ puts[j].prev # NoBody
           /\ json_loads(decode(puts[j].prev)).type = "dict"
    /\ \E j \in DOMAIN puts :
           /\ IsSummaryKey(puts[j].key)
           /\ puts[j].prev # NoBody
           /\ json_loads(decode(puts[j].prev)).type = "list"
           /\ Len(json_loads(decode(puts[j].body)).value) = 3

\* the entries of the summary document now at a key, in order
StoredEntries(key) ==
    IF key \notin DOMAIN storage THEN <<>>
    ELSE LET v == json_loads(decode(storage[key])) IN
         IF v.type = "list" THEN v.value ELSE <<v.value>>

\* the entry the summary put at position j of the log appended
Appended(j) == EntryFor(current_date[puts[j].run], puts[j].idx)

\* an append to the summary at key is lost: the document holds the entry
\* fewer times than puts have appended it
LostAt(key, entry) ==
    Cardinality({k \in DOMAIN StoredEntries(key) : StoredEntries(key)[k] = entry})
        < Cardinality({j \in PutsOn(key) : Appended(j) = entry})

\* the summary put at position j wrote over a body other than the one its
\* run had read: another put came between its get and its put
Stale(j) ==
    /\ IsSummaryKey(puts[j].key)
    /\ puts[j].read # puts[j].prev

\* C10: a single run never loses a summary entry it appended, and never
\* writes over a body it has not read; with two runs an appended entry is
\* lost only after a put that wrote over a body its run had not read, which
\* takes another run with the same timestamp prefix.
C10_LossOnlyByInterleavedMerge ==
    \A j \in DOMAIN puts :
        IsSummaryKey(puts[j].key) =>
            /\ Len(pc) = 1 => ~LostAt(puts[j].key, Appended(j)) /\ ~Stale(j)
            /\ LostAt(puts[j].key, Appended(j)) => \E m \in PutsOn(puts[j].key) : Stale(m)
            /\ Stale(j) =>
                   \E r \in DOMAIN pc :
                       /\ r # puts[j].run
                       /\ current_date[r] = current_date[puts[j].run]
                       /\ \E m \in PutsOn(puts[j].key) : puts[m].run = r

\* both runs returned success, and an entry one of them wrote is gone
C10_Witness ==
    /\ Len(pc) = 2
    /\ Succeeded(1)
    /\ Succeeded(2)
    /\ \E j \in DOMAIN puts :
           /\ IsSummaryKey(puts[j].key)
           /\ LostAt(puts[j].key, Appended(j))

----------------------------------------------------------------------------
(* Properties of restore *)

\* the records of the backup document restore was pointed to
DocRecords == json_loads(decode(storage[event.backup_key])).value.records

IsUserRecord(r) == r.Type # "NS" /\ r.Type # "SOA"

\* the document's records that are neither NS nor SOA, in document order
UserRecords == SelectSeq(DocRecords, IsUserRecord)

RestoreSucceeded ==
    rpc = "done" /\ rresult.kind = "returned" /\ rresult.statusCode = 200

\* C3: no change batch submitted to the DNS provider holds a record of type
\* NS or SOA, and when restore succeeds every record of the document of any
\* other type is in some submitted batch.
C3_NoInfrastructureRecordSubmitted ==
    /\ \A b \in DOMAIN submitted : \A k \in DOMAIN submitted[b] :
           submitted[b][k].ResourceRecordSet.Type \notin {"NS", "SOA"}
    /\ RestoreSucceeded =>
           LET doc == DocRecords
               sent == UNION {{submitted[b][j].ResourceRecordSet :
                                 j \in DOMAIN submitted[b]} : b \in DOMAIN submitted}
           IN  \A k \in DOMAIN doc :
                   doc[k].Type \notin {"NS", "SOA"} => doc[k] \in sent

\* a successful restore of a document that mixes NS, SOA and other records
\* and needed more than one batch
C3_Witness ==
    /\ RestoreSucceeded
    /\ Len(submitted) >= 2
    /\ LET doc == DocRecords IN
       /\ \E k \in DOMAIN doc : doc[k].Type = "NS"
       /\ \E k \in DOMAIN doc : doc[k].Type = "SOA"
       /\ \E k \in DOMAIN doc : doc[k].Type = "CNAME"

\* C4: with n filtered records and every submission succeeding, restore
\* submits exactly ceil(n/100) batches; each but the last holds exactly 100
\* CREATE changes, the last holds n mod 100 (100 when n mod 100 = 0), and the
\* batches put end to end are the filtered records in their original order.
C4_BatchesPartitionFilteredRecords ==
    RestoreSucceeded =>
        LET user == UserRecords
            n == Len(user)
        IN  /\ Len(submitted) = CeilDiv(n, 100)
            /\ \A b \in DOMAIN submitted :
                /\ Len(submitted[b]) =
                       IF b < Len(submitted) THEN 100
                       ELSE IF n % 100 # 0 THEN n % 100 ELSE 100
                /\ \A j \in DOMAIN submitted[b] :
                    /\ submitted[b][j].Action = "CREATE"
                    /\ submitted[b][j].ResourceRecordSet = user[(b - 1) * 100 + j]
            /\ (n = 250 => /\ Len(submitted) = 3
                           /\ Len(submitted[1]) = 100
                           /\ Len(submitted[2]) = 100
                           /\ Len(submitted[3]) = 50)

\* 250 filtered records out of a document that also holds NS and SOA records
C4_Witness ==
    /\ RestoreSucceeded
    /\ Len(submitted) = 3
    /\ Len(UserRecords) = 250
    /\ Len(DocRecords) > 250

\* C5: once the submission of chunk k has failed, exactly k chunks have been
\* submitted (none after k), chunks 1..k-1 are what the target zone holds, and
\* the invocation has ended with one failure result of status 500.
C5_FailedChunkStopsRestore ==
    failed_chunk > 0 =>
        LET user == UserRecords IN
        /\ Len(submitted) = failed_chunk
        /\ \A b \in 1..failed_chunk :
               submitted[b] = Changes(SubSeq(user, (b - 1) * 100 + 1,
                                             Min(b * 100, Len(user))))
        /\ target_zone = SubSeq(user, 1, (failed_chunk - 1) * 100)
        /\ rpc = "done"
        /\ rresult.kind = "returned"
        /\ rresult.statusCode = 500

\* the third chunk failed after two were applied
C5_Witness ==
    /\ failed_chunk = 3
    /\ Len(target_zone) = 200
    /\ rresult.statusCode = 500

\* C6: an invocation that has ended has returned a result payload, of status
\* 200 or 500; no exception leaves the handler.
C6_RestoreAlwaysReturnsPayload ==
    rpc = "done" =>
        /\ rresult.kind = "returned"
        /\ rresult.statusCode \in {200, 500}

----------------------------------------------------------------------------
(* Backup followed by restore *)

\* the record sets the provider holds for zone number k, whatever the paging
ProviderRecordSets(k) ==
    UNION {{zone_pages[ZoneId(hosted_zones[k])][p][n] :
              n \in DOMAIN zone_pages[ZoneId(hosted_zones[k])][p]}
           : p \in DOMAIN zone_pages[ZoneId(hosted_zones[k])]}

\* C8: after a backup and a successful restore of the backup document of a
\* zone into an empty target zone, the target zone holds exactly the zone's
\* record sets other than NS and SOA.
C8_RoundTrip ==
    (restored > 0 /\ RestoreSucceeded) =>
        {target_zone[k] : k \in DOMAIN target_zone}
            = {rs \in ProviderRecordSets(restored) : rs.Type \notin {"NS", "SOA"}}

\* the same, for a document written by the collision-aware handler, or by the
\* basic handler when no other listed zone has the restored zone's name
RoundTripWithoutNameCollision ==
    (/\ restored > 0
     /\ RestoreSucceeded
     /\ \/ Len(event.backup_key) = 4
        \/ Cardinality(Occurrences(ZoneName(hosted_zones[restored]))) = 1)
    =>
        {target_zone[k] : k \in DOMAIN target_zone}
            = {rs \in ProviderRecordSets(restored) : rs.Type \notin {"NS", "SOA"}}

====
